---- MODULE Spec2Model ----
(***************************************************************************)
(* Model of the ccproxy discovery codecs:                                  *)
(*   - BedrockMotd::encode / BedrockMotd::decode  (src/network/bedrock.rs) *)
(*   - ProxyQueryConfig::from_kv_and_players      (src/config.rs)          *)
(* A Rust String is a sequence of one-character strings, so that split,    *)
(* join, parse and to_string are computed character by character.          *)
(***************************************************************************)
EXTENDS Integers, Sequences, FiniteSets, TLC

(***************************************************************************)
(* Result<T, CCProxyError>, Option<T>, and the outcome of a panic.         *)
(***************************************************************************)
Ok(v) == [kind |-> "Ok", val |-> v]

Err(e) == [kind |-> "Err", err |-> e]

Panic == [kind |-> "Panic"]

None == [some |-> FALSE]

Some(v) == [some |-> TRUE, val |-> v]

unwrap_or(opt, dflt) == IF opt.some THEN opt.val ELSE dflt

MotdInvalid == "MotdInvalid"

QueryInvalid == "QueryInvalid"

ParseError == "ParseError"

\* `.map_err(|_| e)`
map_err(res, e) == IF res.kind = "Err" THEN Err(e) ELSE res

(***************************************************************************)
(* str::split and [String]::join over a one-character separator.           *)
(***************************************************************************)
MinOf(S) == CHOOSE x \in S : \A y \in S : x <= y

\* the pieces of s from position start on, position i being the next one examined
RECURSIVE SplitFrom(_, _, _, _)
SplitFrom(s, sep, start, i) ==
    IF i > Len(s) THEN <<SubSeq(s, start, Len(s))>>
    ELSE IF s[i] = sep
        THEN <<SubSeq(s, start, i - 1)>> \o SplitFrom(s, sep, i + 1, i + 1)
    ELSE SplitFrom(s, sep, start, i + 1)

split(s, sep) == SplitFrom(s, sep, 1, 1)

RECURSIVE join(_, _)
join(v, sep) ==
    IF Len(v) = 0 THEN <<>>
    ELSE IF Len(v) = 1 THEN v[1]
    ELSE v[1] \o <<sep>> \o join(Tail(v), sep)

(***************************************************************************)
(* Decimal numerals: str::parse::<i32 | u16 | u64> and to_string.          *)
(* i32 and u16 values are integers.  A u64 value does not fit TLC's 32-bit *)
(* integers and is kept as three limbs <<a, b, c>> = a*10^18 + b*10^9 + c. *)
(***************************************************************************)
DigitChars == <<"0", "1", "2", "3", "4", "5", "6", "7", "8", "9">>

IsDigit(c) == \E i \in 1..10 : DigitChars[i] = c

DigitVal(c) == (CHOOSE i \in 1..10 : DigitChars[i] = c) - 1

AllDigits(s) == \A i \in 1..Len(s) : IsDigit(s[i])

RECURSIVE StripZeros(_)
StripZeros(s) == IF Len(s) > 1 /\ s[1] = "0" THEN StripZeros(Tail(s)) ELSE s

\* a <= b for two numerals of the same length
RECURSIVE DigitsLe(_, _)
DigitsLe(a, b) ==
    IF Len(a) = 0 THEN TRUE
    ELSE IF DigitVal(a[1]) < DigitVal(b[1]) THEN TRUE
    ELSE IF DigitVal(a[1]) > DigitVal(b[1]) THEN FALSE
    ELSE DigitsLe(Tail(a), Tail(b))

\* the overflow check of the checked multiply-add in from_str_radix
FitsIn(d, max) == Len(d) < Len(max) \/ (Len(d) = Len(max) /\ DigitsLe(d, max))

RECURSIVE NatOf(_)
NatOf(d) == IF Len(d) = 0 THEN 0
            ELSE NatOf(SubSeq(d, 1, Len(d) - 1)) * 10 + DigitVal(d[Len(d)])

\* negative numbers are accumulated by subtraction, as from_str_radix does
RECURSIVE NegOf(_)
NegOf(d) == IF Len(d) = 0 THEN 0
            ELSE NegOf(SubSeq(d, 1, Len(d) - 1)) * 10 - DigitVal(d[Len(d)])

I32MaxDigits == <<"2", "1", "4", "7", "4", "8", "3", "6", "4", "7">>

I32MinDigits == <<"2", "1", "4", "7", "4", "8", "3", "6", "4", "8">>

U16MaxDigits == <<"6", "5", "5", "3", "5">>

U64MaxDigits == <<"1", "8", "4", "4", "6", "7", "4", "4", "0", "7",
                  "3", "7", "0", "9", "5", "5", "1", "6", "1", "5">>

\* the sign handling shared by every integer type: a lone sign is invalid
LoneSign(s) == s = <<"+">> \/ s = <<"-">>

parse_i32(s) ==
    IF Len(s) = 0 \/ LoneSign(s) THEN Err(ParseError)
    ELSE LET neg  == s[1] = "-"
             body == IF s[1] = "+" \/ s[1] = "-" THEN Tail(s) ELSE s
             d    == StripZeros(body)
         IN  IF ~AllDigits(body) THEN Err(ParseError)
             ELSE IF neg THEN IF FitsIn(d, I32MinDigits) THEN Ok(NegOf(d))
                              ELSE Err(ParseError)
             ELSE IF FitsIn(d, I32MaxDigits) THEN Ok(NatOf(d))
             ELSE Err(ParseError)

\* unsigned types accept a leading "+" and treat "-" as an invalid digit
UnsignedBody(s) == IF s[1] = "+" THEN Tail(s) ELSE s

parse_u16(s) ==
    IF Len(s) = 0 \/ LoneSign(s) THEN Err(ParseError)
    ELSE LET body == UnsignedBody(s)
             d    == StripZeros(body)
         IN  IF ~AllDigits(body) THEN Err(ParseError)
             ELSE IF FitsIn(d, U16MaxDigits) THEN Ok(NatOf(d))
             ELSE Err(ParseError)

RECURSIVE PadLeft(_, _)
PadLeft(d, n) == IF Len(d) >= n THEN d ELSE PadLeft(<<"0">> \o d, n)

Limbs(d) ==
    LET p == PadLeft(d, 27)
    IN  <<NatOf(SubSeq(p, 1, 9)), NatOf(SubSeq(p, 10, 18)), NatOf(SubSeq(p, 19, 27))>>

parse_u64(s) ==
    IF Len(s) = 0 \/ LoneSign(s) THEN Err(ParseError)
    ELSE LET body == UnsignedBody(s)
             d    == StripZeros(body)
         IN  IF ~AllDigits(body) THEN Err(ParseError)
             ELSE IF FitsIn(d, U64MaxDigits) THEN Ok(Limbs(d))
             ELSE Err(ParseError)

RECURSIVE NatToString(_)
NatToString(n) ==
    IF n < 10 THEN <<DigitChars[n + 1]>>
    ELSE NatToString(n \div 10) \o <<DigitChars[(n % 10) + 1]>>

\* the digits of |n| for n <= 0, without negating n
RECURSIVE NegDigits(_)
NegDigits(n) ==
    IF n = 0 THEN <<>>
    ELSE LET d == (10 - (n % 10)) % 10
         IN  NegDigits((n + d) \div 10) \o <<DigitChars[d + 1]>>

i32_to_string(n) == IF n < 0 THEN <<"-">> \o NegDigits(n) ELSE NatToString(n)

u16_to_string(n) == NatToString(n)

u64_to_string(g) ==
    IF g[1] > 0
        THEN NatToString(g[1]) \o PadLeft(NatToString(g[2]), 9) \o PadLeft(NatToString(g[3]), 9)
    ELSE IF g[2] > 0 THEN NatToString(g[2]) \o PadLeft(NatToString(g[3]), 9)
    ELSE NatToString(g[3])

(***************************************************************************)
(* BedrockEdition and BedrockGametype                                      *)
(***************************************************************************)
sMCPE == <<"M", "C", "P", "E">>

sMCEE == <<"M", "C", "E", "E">>

sSurvival == <<"S", "u", "r", "v", "i", "v", "a", "l">>

sCreative == <<"C", "r", "e", "a", "t", "i", "v", "e">>

BedrockEdition == {"MCPE", "MCEE"}

BedrockGametype == {"Survival", "Creative"}

Edition_encode(e) == IF e = "MCPE" THEN sMCPE ELSE sMCEE

\* an unrecognised tag falls back to the default variant
Edition_decode_defaulting(buf) == IF buf = sMCEE THEN Ok("MCEE") ELSE Ok("MCPE")

Edition_decode(buf) ==
    IF buf = sMCPE THEN Ok("MCPE")
    ELSE IF buf = sMCEE THEN Ok("MCEE")
    ELSE Err(MotdInvalid)

Gametype_encode(g) == IF g = "Survival" THEN sSurvival ELSE sCreative

Gametype_decode(buf) ==
    IF buf = sSurvival THEN Ok("Survival")
    ELSE IF buf = sCreative THEN Ok("Creative")
    ELSE Err(MotdInvalid)

(***************************************************************************)
(* BedrockMotd                                                             *)
(***************************************************************************)
sCCProxy == <<"C", "C", "P", "r", "o", "x", "y">>

sVersion == <<"1", ".", "2", "1", ".", "1", "0", "1">>

default_guid == <<0, 0, 0>>

DefaultProtocolVersion == 827

DefaultMaxPlayers == 100

DefaultPort == 19132

Default_BedrockMotd ==
    [edition |-> "MCPE", server_name |-> sCCProxy,
     protocol_version |-> DefaultProtocolVersion, version |-> sVersion,
     num_players |-> 0, max_players |-> DefaultMaxPlayers, guid |-> default_guid,
     server_sub_name |-> sCCProxy, gametype |-> "Survival",
     nintendo_limited |-> FALSE,
     ipv4_port |-> Some(DefaultPort), ipv6_port |-> None]

\* `guid.map(|g| g.to_string()).unwrap_or(self.guid.to_string())`
EncodeGuid(r, guid) ==
    IF guid.some THEN u64_to_string(guid.val) ELSE u64_to_string(r.guid)

\* the flag written without inversion
PlatformFlag_direct(nintendo_limited) == IF nintendo_limited THEN <<"1">> ELSE <<"0">>

\* `if self.nintendo_limited { "0" } else { "1" }`
PlatformFlag(nintendo_limited) == IF nintendo_limited THEN <<"0">> ELSE <<"1">>

\* `match (self.ipv4_port, self.ipv6_port)` of encode
EncodePorts(r) ==
    IF r.ipv4_port.some /\ r.ipv6_port.some
        THEN <<u16_to_string(r.ipv4_port.val), u16_to_string(r.ipv6_port.val)>>
    ELSE IF r.ipv4_port.some /\ ~r.ipv6_port.some
        THEN <<u16_to_string(r.ipv4_port.val)>>
    ELSE <<>>

Motd_encode(r, guid) ==
    LET motd == << Edition_encode(r.edition),
                   r.server_name,
                   i32_to_string(r.protocol_version),
                   r.version,
                   i32_to_string(r.num_players),
                   i32_to_string(r.max_players),
                   EncodeGuid(r, guid),
                   r.server_sub_name,
                   Gametype_encode(r.gametype),
                   PlatformFlag(r.nintendo_limited) >> \o EncodePorts(r)
    IN  join(motd, ";") \o <<";">>

MinFieldCount == 11

MaxFieldCount == 14

\* the range one field too wide at the low end
FieldCountOk_from10(n) == 10 <= n /\ n <= MaxFieldCount

\* the range without its lower end
FieldCountOk_upto(n) == n <= MaxFieldCount

\* `(11..=14).contains(&buf.len())`
FieldCountOk(n) == MinFieldCount <= n /\ n <= MaxFieldCount

\* `buf[i]` with i counted from 0: indexing past the end of a Vec panics
At(v, i) == IF i < Len(v) THEN Ok(v[i + 1]) ELSE Panic

\* the field parsed only when no override is given (unwrap_or_else)
DecodeGuid_lazy(field, guid) ==
    IF guid.some THEN Ok(guid.val) ELSE map_err(parse_u64(field), MotdInvalid)

\* `guid.unwrap_or(buf[6].parse().map_err(|_| MotdInvalid)?)`: the argument of
\* unwrap_or is evaluated, and its `?` taken, before unwrap_or is called
DecodeGuid(field, guid) ==
    LET p == map_err(parse_u64(field), MotdInvalid)
    IN  IF p.kind = "Ok" THEN Ok(unwrap_or(guid, p.val)) ELSE p

\* `buf[9] == "0"`
NintendoLimited(field) == field = <<"0">>

\* the initialiser of field i of the struct literal of decode
DecodeField(v, guid, i) ==
    LET f == At(v, i)
    IN  IF f.kind = "Panic" THEN Panic
        ELSE CASE i = 0 -> Edition_decode(f.val)
               [] i = 2 -> map_err(parse_i32(f.val), MotdInvalid)
               [] i = 4 -> map_err(parse_i32(f.val), MotdInvalid)
               [] i = 5 -> map_err(parse_i32(f.val), MotdInvalid)
               [] i = 6 -> DecodeGuid(f.val, guid)
               [] i = 8 -> Gametype_decode(f.val)
               [] i = 9 -> Ok(NintendoLimited(f.val))
               [] OTHER -> Ok(f.val)

\* `match (ipv4_port, ipv6_port)` of decode, applied to ipv4_port: None, ipv6_port: None
DecodePorts(ipv4_port, ipv6_port) ==
    IF ipv4_port.some /\ ipv6_port.some
        THEN [ipv4_port |-> Some(ipv4_port.val), ipv6_port |-> Some(ipv6_port.val)]
    ELSE IF ipv4_port.some /\ ~ipv6_port.some
        THEN [ipv4_port |-> Some(ipv4_port.val), ipv6_port |-> None]
    ELSE [ipv4_port |-> None, ipv6_port |-> None]

Motd_decode(buf, guid, ipv4_port, ipv6_port) ==
    LET v == split(buf, ";")
    IN  IF ~FieldCountOk(Len(v)) THEN Err(MotdInvalid)
        ELSE LET bad == {i \in 0..9 : DecodeField(v, guid, i).kind # "Ok"}
             IN  IF bad # {} THEN DecodeField(v, guid, MinOf(bad))
                 ELSE LET p == DecodePorts(ipv4_port, ipv6_port)
                      IN  Ok([edition |-> DecodeField(v, guid, 0).val,
                              server_name |-> DecodeField(v, guid, 1).val,
                              protocol_version |-> DecodeField(v, guid, 2).val,
                              version |-> DecodeField(v, guid, 3).val,
                              num_players |-> DecodeField(v, guid, 4).val,
                              max_players |-> DecodeField(v, guid, 5).val,
                              guid |-> DecodeField(v, guid, 6).val,
                              server_sub_name |-> DecodeField(v, guid, 7).val,
                              gametype |-> DecodeField(v, guid, 8).val,
                              nintendo_limited |-> DecodeField(v, guid, 9).val,
                              ipv4_port |-> p.ipv4_port,
                              ipv6_port |-> p.ipv6_port])

(***************************************************************************)
(* IpAddr::from_str: a dotted quad, else colon-separated hexadecimal groups*)
(* with at most one "::".  The dotted-quad tail of an IPv6 literal and     *)
(* scope ids are left out; no input of the model uses them.                *)
(***************************************************************************)
HexChars == <<"0", "1", "2", "3", "4", "5", "6", "7", "8", "9",
              "a", "b", "c", "d", "e", "f", "A", "B", "C", "D", "E", "F">>

IsHex(c) == \E i \in 1..22 : HexChars[i] = c

HexVal(c) == LET i == CHOOSE j \in 1..22 : HexChars[j] = c
             IN  IF i > 16 THEN i - 7 ELSE i - 1

RECURSIVE HexOf(_)
HexOf(d) == IF Len(d) = 0 THEN 0
            ELSE HexOf(SubSeq(d, 1, Len(d) - 1)) * 16 + HexVal(d[Len(d)])

U8MaxDigits == <<"2", "5", "5">>

OctetOk(p) ==
    /\ Len(p) >= 1
    /\ Len(p) <= 3
    /\ AllDigits(p)
    /\ (Len(p) > 1 => p[1] # "0")
    /\ FitsIn(p, U8MaxDigits)

parse_ipv4(s) ==
    LET parts == split(s, ".")
    IN  IF Len(parts) = 4 /\ \A i \in 1..4 : OctetOk(parts[i])
            THEN Ok([family |-> "V4", addr |-> [i \in 1..4 |-> NatOf(parts[i])]])
        ELSE Err(ParseError)

GroupOk(g) == Len(g) >= 1 /\ Len(g) <= 4 /\ \A i \in 1..Len(g) : IsHex(g[i])

Groups(s) == IF Len(s) = 0 THEN <<>> ELSE split(s, ":")

parse_ipv6(s) ==
    LET dbl == {i \in 1..(Len(s) - 1) : s[i] = ":" /\ s[i + 1] = ":"}
    IN  IF dbl = {}
            THEN LET g == split(s, ":")
                 IN  IF Len(g) = 8 /\ \A i \in 1..8 : GroupOk(g[i])
                         THEN Ok([family |-> "V6", addr |-> [i \in 1..8 |-> HexOf(g[i])]])
                     ELSE Err(ParseError)
        ELSE LET p    == MinOf(dbl)
                 head == Groups(SubSeq(s, 1, p - 1))
                 tail == Groups(SubSeq(s, p + 2, Len(s)))
                 gap  == 8 - Len(head) - Len(tail)
             IN  IF /\ Len(head) + Len(tail) <= 7
                    /\ \A i \in 1..Len(head) : GroupOk(head[i])
                    /\ \A i \in 1..Len(tail) : GroupOk(tail[i])
                     THEN Ok([family |-> "V6",
                              addr |-> [i \in 1..8 |->
                                  IF i <= Len(head) THEN HexOf(head[i])
                                  ELSE IF i <= Len(head) + gap THEN 0
                                  ELSE HexOf(tail[i - Len(head) - gap])]])
                 ELSE Err(ParseError)

parse_ip(s) == IF parse_ipv4(s).kind = "Ok" THEN parse_ipv4(s) ELSE parse_ipv6(s)

(***************************************************************************)
(* ProxyQueryConfig::from_kv_and_players                                   *)
(***************************************************************************)
\* HashMap::get
kv_get(kv, k) == IF k \in DOMAIN kv THEN Some(kv[k]) ELSE None

\* `.get(k).ok_or(QueryInvalid)?`
get_str(kv, k) == IF kv_get(kv, k).some THEN Ok(kv_get(kv, k).val) ELSE Err(QueryInvalid)

\* a missing or unparsable count replaced by zero (unwrap_or_default)
get_u64_defaulting(kv, k) ==
    IF get_str(kv, k).kind = "Ok" /\ parse_u64(get_str(kv, k).val).kind = "Ok"
        THEN parse_u64(get_str(kv, k).val)
    ELSE Ok(<<0, 0, 0>>)

\* `.get(k).ok_or(QueryInvalid)?.parse().map_err(|_| QueryInvalid)?` at u64
get_u64(kv, k) ==
    IF get_str(kv, k).kind = "Ok" THEN map_err(parse_u64(get_str(kv, k).val), QueryInvalid)
    ELSE get_str(kv, k)

get_u16(kv, k) ==
    IF get_str(kv, k).kind = "Ok" THEN map_err(parse_u16(get_str(kv, k).val), QueryInvalid)
    ELSE get_str(kv, k)

get_ip(kv, k) ==
    IF get_str(kv, k).kind = "Ok" THEN map_err(parse_ip(get_str(kv, k).val), QueryInvalid)
    ELSE get_str(kv, k)

\* the initialisers of the eight mandatory fields, in the order of the struct literal
QueryFields(kv) ==
    << get_str(kv, "hostname"), get_str(kv, "gametype"), get_str(kv, "map"),
       get_u64(kv, "numplayers"), get_u64(kv, "maxplayers"),
       get_u16(kv, "hostport"), get_ip(kv, "hostip"), get_str(kv, "version") >>

\* the player list deduplicated while it is attached
RECURSIVE Dedup(_)
Dedup(ps) ==
    IF Len(ps) = 0 THEN <<>>
    ELSE LET front == Dedup(SubSeq(ps, 1, Len(ps) - 1))
         IN  IF \E i \in 1..Len(front) : front[i] = ps[Len(ps)] THEN front
             ELSE Append(front, ps[Len(ps)])

from_kv_and_players_dedup(k_v_section, players) ==
    LET f   == QueryFields(k_v_section)
        bad == {i \in 1..8 : f[i].kind # "Ok"}
    IN  IF bad # {} THEN f[MinOf(bad)]
        ELSE Ok([motd |-> f[1].val, game_type |-> f[2].val, map |-> f[3].val,
                 num_players |-> f[4].val, max_players |-> f[5].val,
                 host_port |-> f[6].val, host_ip |-> f[7].val,
                 version |-> f[8].val,
                 plugins |-> kv_get(k_v_section, "plugins"),
                 players |-> Dedup(players)])

from_kv_and_players(k_v_section, players) ==
    LET f   == QueryFields(k_v_section)
        bad == {i \in 1..8 : f[i].kind # "Ok"}
    IN  IF bad # {} THEN f[MinOf(bad)]
        ELSE Ok([motd |-> f[1].val, game_type |-> f[2].val, map |-> f[3].val,
                 num_players |-> f[4].val, max_players |-> f[5].val,
                 host_port |-> f[6].val, host_ip |-> f[7].val,
                 version |-> f[8].val,
                 plugins |-> kv_get(k_v_section, "plugins"),
                 players |-> players])

(***************************************************************************)
(* Inputs.  Records handed to encode, frames received from the network,    *)
(* override arguments, key-value sections and player lists.                *)
(***************************************************************************)
MaxFields == 14

MaxPlayersLen == 2

sMyServer == <<"M", "y", "S", "e", "r", "v", "e", "r">>

GuidSamples == {<<0, 0, 12345>>, <<0, 1, 5>>, <<18, 446744073, 709551615>>}

Records ==
    [edition : BedrockEdition,
     server_name : {sMyServer, <<>>, <<"a", ";", "b">>},
     protocol_version : {827, -1, 2147483647},
     version : {sVersion},
     num_players : {3},
     max_players : {20},
     guid : GuidSamples,
     server_sub_name : {sMyServer},
     gametype : BedrockGametype,
     nintendo_limited : BOOLEAN,
     ipv4_port : {None, Some(25565)},
     ipv6_port : {None, Some(25566)}] \cup {Default_BedrockMotd}

GuidOverrides == {None, Some(<<0, 0, 99>>)}

Ipv4Overrides == {None, Some(19132)}

Ipv6Overrides == {None, Some(19133)}

\* "MCPE;MyServer;827;1.21.101;3;20;12345;MyServer;Survival;1;19132;19133;"
ExampleFields ==
    << sMCPE, sMyServer, <<"8", "2", "7">>, sVersion, <<"3">>, <<"2", "0">>, <<"1", "2", "3", "4", "5">>, sMyServer,
       sSurvival, <<"1">>, <<"1", "9", "1", "3", "2">>, <<"1", "9", "1", "3", "3">> >>

ExampleFrame == join(ExampleFields, ";") \o <<";">>

BaseField(j) == IF j <= Len(ExampleFields) THEN ExampleFields[j] ELSE <<"x">>

FieldSamples ==
    { <<>>, sMCEE, <<"M", "C", "B", "E">>, sCreative, <<"s", "u", "r", "v", "i", "v", "a", "l">>, <<"+", "8", "2", "7">>, <<"-", "1">>, <<"8", "x", "7">>, <<"0", "0", "7">>,
      <<"2", "1", "4", "7", "4", "8", "3", "6", "4", "8">>, <<"-", "2", "1", "4", "7", "4", "8", "3", "6", "4", "8">>,
      <<"1", "8", "4", "4", "6", "7", "4", "4", "0", "7", "3", "7", "0", "9", "5", "5", "1", "6", "1", "5">>,
      <<"1", "8", "4", "4", "6", "7", "4", "4", "0", "7", "3", "7", "0", "9", "5", "5", "1", "6", "1", "6">>, <<"0">> }

\* n fields of the example, field i (if any) replaced by a sample
FieldLists ==
    UNION { { [j \in 1..n |-> IF j = i THEN v ELSE BaseField(j)] :
                i \in 0..n, v \in FieldSamples } : n \in 1..MaxFields }

Frames ==
    { join(fs, ";") \o t : fs \in FieldLists, t \in {<<>>, <<";">>} }
        \cup { [j \in 1..n |-> ";"] : n \in 0..(MaxFields + 1) }

Keys == {"hostname", "gametype", "map", "numplayers", "maxplayers",
         "hostport", "hostip", "version", "plugins"}

KvBase ==
    [k \in Keys |->
        CASE k = "hostname"   -> sCCProxy
          [] k = "gametype"   -> <<"S", "M", "P">>
          [] k = "map"        -> <<"w", "o", "r", "l", "d">>
          [] k = "numplayers" -> <<"3">>
          [] k = "maxplayers" -> <<"2", "0">>
          [] k = "hostport"   -> <<"1", "9", "1", "3", "2">>
          [] k = "hostip"     -> <<"1", "2", "7", ".", "0", ".", "0", ".", "1">>
          [] k = "version"    -> sVersion
          [] k = "plugins"    -> <<"a", "b", "c">>]

KvSamples ==
    { <<>>, <<"a", "b", "c">>, <<"0">>, <<"+", "7">>, <<"-", "5">>, <<"0", "0", "7">>, <<"6", "5", "5", "3", "5">>, <<"6", "5", "5", "3", "6">>,
      <<"1", "8", "4", "4", "6", "7", "4", "4", "0", "7", "3", "7", "0", "9", "5", "5", "1", "6", "1", "5">>,
      <<"1", "8", "4", "4", "6", "7", "4", "4", "0", "7", "3", "7", "0", "9", "5", "5", "1", "6", "1", "6">>,
      <<"0", ".", "0", ".", "0", ".", "0">>, <<"2", "5", "6", ".", "0", ".", "0", ".", "1">>, <<"1", ".", "2", ".", "3">>, <<"0", "1", ".", "2", ".", "3", ".", "4">>,
      <<":", ":", "1">>, <<"f", "e", "8", "0", ":", ":", "1">>, <<"1", ":", ":", "2", ":", ":", "3">>,
      <<"1", ":", "2", ":", "3", ":", "4", ":", "5", ":", "6", ":", "7", ":", "8">> }

Restrict(f, D) == [k \in D |-> f[k]]

\* the base section with at most one value replaced and at most one key dropped
KvSections ==
    { Restrict(f, Keys \ D) :
        f \in {KvBase} \cup {[KvBase EXCEPT ![k] = v] : k \in Keys, v \in KvSamples},
        D \in {{}} \cup {{x} : x \in Keys} \cup {Keys} }

PlayerNames == {<<"S", "t", "e", "v", "e">>, <<"A", "l", "e", "x">>}

PlayerLists == UNION { [1..n -> PlayerNames] : n \in 0..MaxPlayersLen }

(***************************************************************************)
(* State: the arguments and the result of the last call of each codec.     *)
(***************************************************************************)
VARIABLES pc, motd, encGuid, buf, origin, ov, res, reenc, kv, players, qres

vars == <<pc, motd, encGuid, buf, origin, ov, res, reenc, kv, players, qres>>

Idle == [kind |-> "Idle"]

Init ==
    /\ pc = "idle"
    /\ motd = Default_BedrockMotd
    /\ encGuid = None
    /\ buf = <<>>
    /\ origin = "none"
    /\ ov = [guid |-> None, ipv4_port |-> None, ipv6_port |-> None]
    /\ res = Idle
    /\ reenc = None
    /\ kv = [k \in {} |-> <<>>]
    /\ players = <<>>
    /\ qres = Idle

\* BedrockMotd::encode(&r, g)
Encode ==
    /\ pc = "idle"
    /\ \E r \in Records, g \in GuidOverrides :
        /\ motd' = r
        /\ encGuid' = g
        /\ buf' = Motd_encode(r, g)
    /\ origin' = "encode"
    /\ pc' = "encoded"
    /\ UNCHANGED <<ov, res, reenc, kv, players, qres>>

\* an identity frame arrives from the network
Receive ==
    /\ pc = "idle"
    /\ \E s \in Frames : buf' = s
    /\ origin' = "wire"
    /\ pc' = "received"
    /\ UNCHANGED <<motd, encGuid, ov, res, reenc, kv, players, qres>>

\* BedrockMotd::decode(buf, g, a, b)
Decode ==
    /\ pc \in {"encoded", "received"}
    /\ \E g \in GuidOverrides, a \in Ipv4Overrides, b \in Ipv6Overrides :
        /\ ov' = [guid |-> g, ipv4_port |-> a, ipv6_port |-> b]
        /\ res' = Motd_decode(buf, g, a, b)
    /\ pc' = "decoded"
    /\ UNCHANGED <<motd, encGuid, buf, origin, reenc, kv, players, qres>>

\* the decoded record is encoded again with no guid override
ReEncode ==
    /\ pc = "decoded"
    /\ res.kind = "Ok"
    /\ reenc' = Some(Motd_encode(res.val, None))
    /\ pc' = "reencoded"
    /\ UNCHANGED <<motd, encGuid, buf, origin, ov, res, kv, players, qres>>

\* ProxyQueryConfig::from_kv_and_players(section, ps)
Query ==
    /\ pc = "idle"
    /\ \E section \in KvSections, ps \in PlayerLists :
        /\ kv' = section
        /\ players' = ps
        /\ qres' = from_kv_and_players(section, ps)
    /\ pc' = "queried"
    /\ UNCHANGED <<motd, encGuid, buf, origin, ov, res, reenc>>

Next == Encode \/ Receive \/ Decode \/ ReEncode \/ Query

Spec == Init /\ [][Next]_vars

(***************************************************************************)
(* Properties                                                              *)
(***************************************************************************)
Fields == split(buf, ";")

Count == Len(Fields)

NoOverrides == ov = [guid |-> None, ipv4_port |-> None, ipv6_port |-> None]

HasSemicolon(s) == \E i \in 1..Len(s) : s[i] = ";"

\* a record whose text fields survive the unescaped wire format
ValidRecord(r) ==
    /\ ~HasSemicolon(r.server_name)
    /\ ~HasSemicolon(r.version)
    /\ ~HasSemicolon(r.server_sub_name)

\* ports are neither, ipv4 only, or both
PortShape(r) == r.ipv6_port.some => r.ipv4_port.some

\* C1: decoding, with no overrides, what encode (with no guid override) produced
\* from a valid record with ports in {neither, ipv4 only, both} gives the record
\* back, ports included.
C1_RoundTrip ==
    (/\ pc = "decoded"
     /\ origin = "encode"
     /\ encGuid = None
     /\ NoOverrides
     /\ ValidRecord(motd)
     /\ PortShape(motd)) => res = Ok(motd)

\* C2 as stated: every frame whose number of ';'-separated fields is not
\* exactly 11, 13 or 14 is rejected with MotdInvalid (so 10 and 12 both are).
C2_OnlyThreeCounts ==
    (pc = "decoded" /\ Count \notin {11, 13, 14}) => res = Err(MotdInvalid)

\* C2 amended: every frame whose number of ';'-separated fields is below 11 or
\* above 14 is rejected with MotdInvalid, whatever the fields hold.
C2_OutsideRangeRejected ==
    (pc = "decoded" /\ (Count < 11 \/ Count > 14)) => res = Err(MotdInvalid)

TenFields == join(SubSeq(ExampleFields, 1, 10), ";")

\* the ten leading fields of the example, every one of them valid, are rejected
C2_Witness == pc = "decoded" /\ buf = TenFields /\ Count = 10 /\ res = Err(MotdInvalid)

\* the wire form with trailing port fields: ten fields, one or two ports, final ';'
WireWithPorts ==
    /\ Count \in {12, 13}
    /\ Fields[Count] = <<>>
    /\ \A j \in 11..(Count - 1) : parse_u16(Fields[j]).kind = "Ok"

\* C3: a frame carrying trailing port fields decodes, with no overrides, to a
\* record holding the ports written in the frame, and encoding that record with
\* no guid override reproduces the frame.
C3_WirePortsKept ==
    (/\ pc \in {"decoded", "reencoded"}
     /\ origin = "wire"
     /\ NoOverrides
     /\ WireWithPorts
     /\ res.kind = "Ok") =>
        /\ res.val.ipv4_port = Some(parse_u16(Fields[11]).val)
        /\ res.val.ipv6_port =
               IF Count = 13 THEN Some(parse_u16(Fields[12]).val) ELSE None
        /\ pc = "reencoded" => reenc = Some(buf)

\* C4: whenever decode succeeds, every override that was supplied is the value
\* of the returned record, for every combination of supplied overrides.
C4_OverridesWin ==
    (pc = "decoded" /\ res.kind = "Ok") =>
        /\ ov.guid.some => res.val.guid = ov.guid.val
        /\ ov.ipv4_port.some => res.val.ipv4_port = ov.ipv4_port
        /\ ov.ipv6_port.some => res.val.ipv6_port = ov.ipv6_port

\* C5: a frame of an accepted field count whose protocol-version, player-count
\* or max-player field is no integer, or whose edition or game-mode tag is not
\* one of the two known ones, is rejected with MotdInvalid.
C5_StrictFields ==
    (/\ pc = "decoded"
     /\ Count >= 11
     /\ Count <= 14
     /\ \/ parse_i32(Fields[3]).kind # "Ok"
        \/ parse_i32(Fields[5]).kind # "Ok"
        \/ parse_i32(Fields[6]).kind # "Ok"
        \/ Fields[1] \notin {sMCPE, sMCEE}
        \/ Fields[9] \notin {sSurvival, sCreative}) => res = Err(MotdInvalid)

\* an unknown edition tag in an otherwise valid frame is rejected
C5_Witness ==
    /\ pc = "decoded"
    /\ buf = join([ExampleFields EXCEPT ![1] = <<"M", "C", "B", "E">>], ";") \o <<";">>
    /\ res = Err(MotdInvalid)

ExpectedPorts(r) ==
    IF r.ipv4_port.some /\ r.ipv6_port.some
        THEN u16_to_string(r.ipv4_port.val) \o <<";">>
             \o u16_to_string(r.ipv6_port.val) \o <<";">>
    ELSE IF r.ipv4_port.some THEN u16_to_string(r.ipv4_port.val) \o <<";">>
    ELSE <<>>

\* C6: encode writes edition, name, protocol version, version, player count,
\* max players, guid (the override when supplied), sub-name, game mode and the
\* platform flag ("1" exactly when not restricted), then both ports, the ipv4
\* port alone, or no port, each followed by ';', and ends with a single ';'.
C6_EncodeLayout ==
    pc = "encoded" =>
        /\ buf = (IF motd.edition = "MCPE" THEN sMCPE ELSE sMCEE) \o <<";">>
                 \o motd.server_name \o <<";">>
                 \o i32_to_string(motd.protocol_version) \o <<";">>
                 \o motd.version \o <<";">>
                 \o i32_to_string(motd.num_players) \o <<";">>
                 \o i32_to_string(motd.max_players) \o <<";">>
                 \o u64_to_string(IF encGuid.some THEN encGuid.val ELSE motd.guid)
                 \o <<";">>
                 \o motd.server_sub_name \o <<";">>
                 \o (IF motd.gametype = "Survival" THEN sSurvival ELSE sCreative)
                 \o <<";">>
                 \o (IF motd.nintendo_limited THEN <<"0">> ELSE <<"1">>) \o <<";">>
                 \o ExpectedPorts(motd)
        /\ buf[Len(buf)] = ";"
        /\ buf[Len(buf) - 1] # ";"

\* a restricted record with both ports, encoded under a guid override
C6_Witness ==
    /\ pc = "encoded"
    /\ motd.nintendo_limited
    /\ motd.ipv4_port.some
    /\ motd.ipv6_port.some
    /\ encGuid.some
    /\ Count = 13

Mandatory == {"hostname", "gametype", "map", "numplayers", "maxplayers",
              "hostport", "hostip", "version"}

\* a mandatory value that is present and does not parse
Unparsable ==
    \/ \E k \in {"numplayers", "maxplayers"} \cap DOMAIN kv : parse_u64(kv[k]).kind # "Ok"
    \/ "hostport" \in DOMAIN kv /\ parse_u16(kv["hostport"]).kind # "Ok"
    \/ "hostip" \in DOMAIN kv /\ parse_ip(kv["hostip"]).kind # "Ok"

\* C7: a section lacking a mandatory key, or holding an unparsable numplayers,
\* maxplayers, hostport or hostip, is rejected with QueryInvalid.
C7_MandatoryKeys ==
    (pc = "queried" /\ (~(Mandatory \subseteq DOMAIN kv) \/ Unparsable))
        => qres = Err(QueryInvalid)

\* a section lacking only numplayers is rejected
C7_Witness ==
    /\ pc = "queried"
    /\ DOMAIN kv = Keys \ {"numplayers"}
    /\ ~Unparsable
    /\ qres = Err(QueryInvalid)

\* C8: a section with every mandatory key and parsable values decodes, with or
\* without a plugins key, and the record's player list is the input list.
C8_PlayersVerbatim ==
    (pc = "queried" /\ Mandatory \subseteq DOMAIN kv /\ ~Unparsable) =>
        /\ qres.kind = "Ok"
        /\ qres.val.players = players
        /\ qres.val.plugins = IF "plugins" \in DOMAIN kv THEN Some(kv["plugins"]) ELSE None

\* no plugins key and a player list naming the same player twice
C8_Witness ==
    /\ pc = "queried"
    /\ "plugins" \notin DOMAIN kv
    /\ Len(players) = 2
    /\ players[1] = players[2]
    /\ qres.kind = "Ok"
    /\ Len(qres.val.players) = 2

\* C9: decode returns a record or MotdInvalid for every input: it never
\* indexes past the split result and returns no other error.
C9_DecodeTotal ==
    pc = "decoded" => (res.kind = "Ok" \/ res = Err(MotdInvalid))

\* the empty string is rejected with MotdInvalid
C9_Witness == pc = "decoded" /\ buf = <<>> /\ Count = 1 /\ res = Err(MotdInvalid)

\* C10: a frame of an accepted field count whose guid field is no u64 is
\* rejected with MotdInvalid, with or without a guid override.
C10_GuidValidated ==
    (/\ pc = "decoded"
     /\ Count >= 11
     /\ Count <= 14
     /\ parse_u64(Fields[7]).kind # "Ok") => res = Err(MotdInvalid)

\* an override is supplied and only the guid field of the frame is invalid
C10_Witness ==
    /\ pc = "decoded"
    /\ ov.guid.some
    /\ buf = join([ExampleFields EXCEPT ![7] = <<"-", "1">>], ";") \o <<";">>
    /\ res = Err(MotdInvalid)

====
